---- MODULE Spec2Model ----
(***************************************************************************)
(* A model of clox.cpp: the Instruction codec, the ConstantPool, the Chunk *)
(* and the VirtualMachine.                                                 *)
(*                                                                         *)
(* Representation.                                                         *)
(*  - A uint32_t is a pair <<hi, lo>> of 16-bit halves (value hi*2^16+lo), *)
(*    so that 32-bit shifts and masks are computed without leaving the     *)
(*    integer range of the model checker.                                  *)
(*  - An Instruction is a record [line, opcode, index]; index = Uninit     *)
(*    stands for the member index_ left uninitialized by the two-argument  *)
(*    constructor.                                                         *)
(*  - A double is a record [s, n, d]: sign s, magnitude n/d in lowest      *)
(*    terms, d = 0 for infinity (n = 1) and NaN (n = 0).  Arithmetic is    *)
(*    exact on the rationals and follows IEEE-754 for zeros, infinities    *)
(*    and NaN; rounding is not modelled.                                   *)
(*  - An operation that can end the process, or whose behaviour is         *)
(*    undefined, is an operator returning the SET of its outcomes.         *)
(*  - fault records how the program left its defined behaviour: the FAIL   *)
(*    macro ("InvalidOpcode"), an uncaught std::out_of_range               *)
(*    ("IndexOutOfRange"), or undefined behaviour, whose outcomes are a    *)
(*    crash ("Crash") or the operation completing with a garbage value     *)
(*    ("Garbage").  Nothing is modelled after a fault.                     *)
(***************************************************************************)
EXTENDS Integers, Sequences, FiniteSets, TLC

VARIABLES
    instr,        \* codec: the Instruction object at hand, or None
    pair,         \* codec: the (line, word) pair at hand, or None
    dec,          \* codec: the Instruction returned by deserialize, or None
    name_,        \* Chunk::name_
    constants_,   \* ConstantPool::constants_
    lines_,       \* Chunk::lines_
    codes_,       \* Chunk::codes_
    ip_,          \* VirtualMachine::ip_
    stack_,       \* VirtualMachine::stack_
    out,          \* the sink handed to run: the sequence of items written
    pc,           \* "idle", or "run" while control is inside run's loop
    ret,          \* what the last completed call returned, or None
    fault,        \* "none", or how the process ended
    hist          \* history: arguments of the calls made so far, the indexes
                  \* step was called for, ip_ on entry to the last run

vars == <<instr, pair, dec, name_, constants_, lines_, codes_, ip_, stack_,
          out, pc, ret, fault, hist>>

None == [none |-> TRUE]

(***************************************************************************)
(* Bounds of the model.                                                    *)
(***************************************************************************)
MaxCode == 4        \* Spec: longest chunk the VirtualMachine is run on
MaxConstants == 1   \* Spec: largest constant pool of that chunk
MaxWrites == 2      \* SpecChunk: longest chunk built
MaxPool == 2        \* SpecChunk: largest constant pool built
MaxFair == 2        \* SpecFair: longest chunk the VirtualMachine is run on

(***************************************************************************)
(* enum class Opcode : uint8_t                                             *)
(***************************************************************************)
Return   == 0
Constant == 1
Add      == 2
Subtract == 3
Multiply == 4
Divide   == 5
Negate   == 6
_Count   == 7

Opcodes == Return .. _Count

\* The marker of an uninitialized index_ (two-argument constructor).
Uninit == -1

(***************************************************************************)
(* 32-bit unsigned arithmetic on <<hi, lo>>.                               *)
(***************************************************************************)
Pow2(n) == 2 ^ n

\* The uint32_t holding a value below 2^31.
ToU32(n) == <<n \div 65536, n % 65536>>

RECURSIVE BitOr16(_, _)
BitOr16(a, b) ==
    IF a = 0 THEN b
    ELSE IF b = 0 THEN a
    ELSE (IF a % 2 = 1 \/ b % 2 = 1 THEN 1 ELSE 0)
         + 2 * BitOr16(a \div 2, b \div 2)

RECURSIVE BitAnd16(_, _)
BitAnd16(a, b) ==
    IF a = 0 \/ b = 0 THEN 0
    ELSE (IF a % 2 = 1 /\ b % 2 = 1 THEN 1 ELSE 0)
         + 2 * BitAnd16(a \div 2, b \div 2)

\* a | b
Or32(a, b) == <<BitOr16(a[1], b[1]), BitOr16(a[2], b[2])>>

\* a & b
And32(a, b) == <<BitAnd16(a[1], b[1]), BitAnd16(a[2], b[2])>>

\* a << 8, reduced modulo 2^32
Shl8(a) == <<(a[1] % 256) * 256 + a[2] \div 256, (a[2] % 256) * 256>>

\* a >> 8
Shr8(a) == <<a[1] \div 256, (a[1] % 256) * 256 + a[2] \div 256>>

\* The value of a uint32_t known to be below 2^31.
FromU32(a) == a[1] * 65536 + a[2]

(***************************************************************************)
(* class Instruction                                                       *)
(***************************************************************************)
\* Instruction(line, opcode): index_ is not initialized.
Instruction2(line, opcode) ==
    [line |-> line, opcode |-> opcode, index |-> Uninit]

\* Instruction(line, opcode, index): the bit-field index_ : 24 keeps the low
\* 24 bits of the argument.
Instruction3(line, opcode, index) ==
    [line |-> line, opcode |-> opcode, index |-> index % Pow2(24)]

get_line(i) == i.line

get_opcode(i) == i.opcode

\* The values a read of an uninitialized index_ is modelled to produce.
Indeterminate == {0, Pow2(24) - 1}

\* The values a read of index_ can produce.
index_read(i) == IF i.index = Uninit THEN Indeterminate ELSE {i.index}

get_constant_index(i) == index_read(i)

Returned(v) == [fault |-> "none", value |-> v]

Failed(f) == [fault |-> f, value |-> None]

\* What a call whose behaviour is undefined is modelled to return when it
\* does not crash: an Instruction made of whatever the registers hold.
GarbageInstructions(line, opcode) ==
    {Instruction2(line, opcode), Instruction2(0, Return),
     Instruction3(line, Constant, 0)}

\* deserialize with the operand taken from the word unshifted.
deserialize_noshift(line, bytes) ==
    LET opcode == FromU32(And32(bytes, ToU32(255))) IN
    IF opcode \in {Return, Add, Subtract, Multiply, Divide, Negate}
      THEN {Returned(Instruction2(line, opcode))}
    ELSE IF opcode = Constant
      THEN {Returned(Instruction3(line, opcode, bytes[2]))}
    ELSE {Failed("InvalidOpcode")}

\* static Instruction deserialize(line, bytes): the set of outcomes.
\* _Count ends the process through FAIL; for a low byte above _Count no case
\* label matches, control leaves the switch and flows off the end of the
\* function without a return statement, which is undefined behaviour.
deserialize(line, bytes) ==
    LET opcode == FromU32(And32(bytes, ToU32(255))) IN
    IF opcode \in {Return, Add, Subtract, Multiply, Divide, Negate}
      THEN {Returned(Instruction2(line, opcode))}
    ELSE IF opcode = Constant
      THEN {Returned(Instruction3(line, opcode, FromU32(Shr8(bytes))))}
    ELSE IF opcode = _Count
      THEN {Failed("InvalidOpcode")}
    ELSE {Failed("Crash")}
         \cup {[fault |-> "Garbage", value |-> g] :
                  g \in GarbageInstructions(line, opcode)}

\* serialize with the index or-ed into the word unshifted.
serialize_noshift(i) ==
    LET bytecode == ToU32(i.opcode) IN
    IF i.opcode = Constant
      THEN {Returned([line |-> i.line, word |-> Or32(bytecode, ToU32(x))]) : x \in index_read(i)}
    ELSE IF i.opcode = _Count
      THEN {Failed("InvalidOpcode")}
    ELSE {Returned([line |-> i.line, word |-> bytecode])}

\* serialize treating the sentinel like the opcodes without an operand.
serialize_sentinel(i) ==
    LET bytecode == ToU32(i.opcode) IN
    IF i.opcode = Constant
      THEN {Returned([line |-> i.line, word |-> Or32(bytecode, Shl8(ToU32(x)))]) :
                x \in index_read(i)}
    ELSE {Returned([line |-> i.line, word |-> bytecode])}

\* std::pair<uint, uint32_t> serialize() const: the set of outcomes.
serialize(i) ==
    LET bytecode == ToU32(i.opcode) IN
    IF i.opcode = Constant
      THEN {Returned([line |-> i.line, word |-> Or32(bytecode, Shl8(ToU32(x)))]) :
                x \in index_read(i)}
    ELSE IF i.opcode = _Count
      THEN {Failed("InvalidOpcode")}
    ELSE {Returned([line |-> i.line, word |-> bytecode])}

(***************************************************************************)
(* double                                                                  *)
(***************************************************************************)
RECURSIVE Gcd(_, _)
Gcd(a, b) == IF b = 0 THEN a ELSE Gcd(b, a % b)

NaN == [s |-> 1, n |-> 0, d |-> 0]

Inf(s) == [s |-> s, n |-> 1, d |-> 0]

Zero(s) == [s |-> s, n |-> 0, d |-> 1]

\* The double of sign s and magnitude n/d, d > 0.
Dbl(s, n, d) ==
    IF n = 0 THEN Zero(s)
    ELSE LET g == Gcd(n, d) IN [s |-> s, n |-> n \div g, d |-> d \div g]

IsNaN(v) == v.d = 0 /\ v.n = 0

IsInf(v) == v.d = 0 /\ v.n = 1

IsZero(v) == v.d = 1 /\ v.n = 0

\* -v
fneg(v) == IF IsNaN(v) THEN NaN ELSE [v EXCEPT !.s = -v.s]

\* a + b
fadd(a, b) ==
    IF IsNaN(a) \/ IsNaN(b) THEN NaN
    ELSE IF IsInf(a) /\ IsInf(b) THEN (IF a.s = b.s THEN a ELSE NaN)
    ELSE IF IsInf(a) THEN a
    ELSE IF IsInf(b) THEN b
    ELSE LET num == a.s * a.n * b.d + b.s * b.n * a.d
             den == a.d * b.d
         IN  IF num = 0
               THEN Zero(IF a.s = -1 /\ b.s = -1 THEN -1 ELSE 1)
             ELSE IF num > 0 THEN Dbl(1, num, den)
             ELSE Dbl(-1, -num, den)

\* a - b
fsub(a, b) == fadd(a, fneg(b))

\* a * b
fmul(a, b) ==
    IF IsNaN(a) \/ IsNaN(b) THEN NaN
    ELSE IF (IsZero(a) /\ IsInf(b)) \/ (IsInf(a) /\ IsZero(b)) THEN NaN
    ELSE IF IsInf(a) \/ IsInf(b) THEN Inf(a.s * b.s)
    ELSE Dbl(a.s * b.s, a.n * b.n, a.d * b.d)

\* a / b
fdiv(a, b) ==
    IF IsNaN(a) \/ IsNaN(b) THEN NaN
    ELSE IF (IsZero(a) /\ IsZero(b)) \/ (IsInf(a) /\ IsInf(b)) THEN NaN
    ELSE IF IsInf(a) \/ IsZero(b) THEN Inf(a.s * b.s)
    ELSE IF IsInf(b) THEN Zero(a.s * b.s)
    ELSE Dbl(a.s * b.s, a.n * b.d, a.d * b.n)

(***************************************************************************)
(* class ConstantPool                                                      *)
(***************************************************************************)
\* get with constants_[offset] in place of constants_.at(offset).
get_unchecked(offset) ==
    IF offset < Len(constants_)
      THEN {Returned(constants_[offset + 1])}
    ELSE {[fault |-> "Garbage", value |-> Zero(1)]}

\* double get(offset) const: constants_.at(offset) throws std::out_of_range,
\* which nothing catches.
get(offset) ==
    IF offset < Len(constants_)
      THEN {Returned(constants_[offset + 1])}
    ELSE {Failed("IndexOutOfRange")}

\* add returning the size of the pool after the push_back.
add_size(constant) ==
    LET pool == Append(constants_, constant) IN
    [constants |-> pool, value |-> Len(pool)]

\* size_t add(constant): the pool after the call and the index returned.
add(constant) ==
    LET pool == Append(constants_, constant) IN
    [constants |-> pool, value |-> Len(pool) - 1]

(***************************************************************************)
(* class Chunk                                                             *)
(***************************************************************************)
get_length == Len(codes_)

\* Instruction read(offset) const
read(offset) ==
    IF offset < Len(lines_) /\ offset < Len(codes_)
      THEN deserialize(lines_[offset + 1], codes_[offset + 1])
    ELSE {Failed("IndexOutOfRange")}

\* write inserting at the front of the two vectors.
write_front(instruction) ==
    {IF r.fault = "none"
       THEN [fault |-> "none",
             lines |-> <<r.value.line>> \o lines_,
             codes |-> <<r.value.word>> \o codes_]
     ELSE [fault |-> r.fault, lines |-> lines_, codes |-> codes_] :
        r \in serialize(instruction)}

\* write pushing the line before it serializes the instruction.
write_line_first(instruction) ==
    {IF r.fault = "none"
       THEN [fault |-> "none",
             lines |-> Append(lines_, instruction.line),
             codes |-> Append(codes_, r.value.word)]
     ELSE [fault |-> r.fault, lines |-> Append(lines_, instruction.line),
           codes |-> codes_] :
        r \in serialize(instruction)}

\* void write(instruction): the outcomes, each with the two vectors after it.
write(instruction) ==
    {IF r.fault = "none"
       THEN [fault |-> "none",
             lines |-> Append(lines_, r.value.line),
             codes |-> Append(codes_, r.value.word)]
     ELSE [fault |-> r.fault, lines |-> lines_, codes |-> codes_] :
        r \in serialize(instruction)}

\* std::string to_string(Opcode): the outcomes; default: FAIL.
to_string(opcode) ==
    CASE opcode = Return   -> Returned([str |-> "RETURN"])
      [] opcode = Constant -> Returned([str |-> "CONSTANT"])
      [] opcode = Add      -> Returned([str |-> "ADD"])
      [] opcode = Subtract -> Returned([str |-> "SUBTRACT"])
      [] opcode = Multiply -> Returned([str |-> "MULTIPLY"])
      [] opcode = Divide   -> Returned([str |-> "DIVIDE"])
      [] opcode = Negate   -> Returned([str |-> "NEGATE"])
      [] OTHER             -> Failed("InvalidOpcode")

\* Items written to a sink.  A row is the four fixed columns of a
\* disassembly line, an operand the two columns a Constant row appends.
Row(index, line, code, name) ==
    [kind |-> "row", index |-> index, line |-> line, code |-> code,
     opcode |-> name]

Operand(index, value) == [kind |-> "operand", index |-> index, value |-> value]

Endl == [kind |-> "endl"]

Wrote(f, items) == [fault |-> f, items |-> items]

\* The rest of disassemble(out, index) once the instruction is decoded and
\* its name is known: the row, the switch, the end of line.
disassemble_row(index, i, name) ==
    LET row == Row(index, get_line(i), codes_[index + 1], name) IN
    IF get_opcode(i) = Constant
      THEN UNION {{IF g.fault = "none"
                     THEN Wrote("none", <<row, Operand(index, g.value), Endl>>)
                   ELSE Wrote(g.fault, <<row>>) :
                       g \in get(constant_index)} :
                  constant_index \in get_constant_index(i)}
    ELSE {Wrote("none", <<row, Endl>>)}

\* void disassemble(out, index): the outcomes, each with the items written.
disassemble(index) ==
    IF ~(index < Len(codes_)) THEN {Wrote("IndexOutOfRange", <<>>)}
    ELSE UNION {IF r.fault # "none" THEN {Wrote(r.fault, <<>>)}
                ELSE LET name == to_string(get_opcode(r.value)) IN
                     IF name.fault # "none" THEN {Wrote(name.fault, <<>>)}
                     ELSE disassemble_row(index, r.value, name.value.str) :
                   r \in read(index)}

\* The first line of disassemble(out): "== <name> ==".
Header(name) == [kind |-> "header", name |-> name]

\* for (index = ...; index < get_length(); ++index) disassemble(out, index);
\* an exception of disassemble(out, index) ends the loop.
RECURSIVE disassemble_from(_)
disassemble_from(index) ==
    IF ~(index < get_length) THEN {Wrote("none", <<>>)}
    ELSE UNION {IF d.fault # "none" THEN {d}
                ELSE {Wrote(rest.fault, d.items \o rest.items) :
                         rest \in disassemble_from(index + 1)} :
                   d \in disassemble(index)}

\* The loop starting at index 1.
disassemble_chunk_from1 ==
    {Wrote(d.fault, <<Header(name_), Endl>> \o d.items) :
        d \in disassemble_from(1)}

\* void disassemble(out): the header, then every instruction from index 0.
disassemble_chunk ==
    {Wrote(d.fault, <<Header(name_), Endl>> \o d.items) :
        d \in disassemble_from(0)}

(***************************************************************************)
(* class VirtualMachine                                                    *)
(***************************************************************************)
\* What a read past the stack's storage is modelled to produce.
GarbageValues == {Zero(1), Dbl(1, 7, 1)}

\* void push_(value)
push_(stack, value) == Append(stack, value)

\* double pop_(): stack_.back() and stack_.pop_back() on an empty vector are
\* undefined behaviour: the process crashes, or a garbage value is returned.
pop_(stack) ==
    IF Len(stack) > 0
      THEN {[fault |-> "none", value |-> stack[Len(stack)],
             stack |-> SubSeq(stack, 1, Len(stack) - 1), ub |-> FALSE]}
    ELSE {[fault |-> "Crash", value |-> None, stack |-> stack, ub |-> TRUE]}
         \cup {[fault |-> "Garbage", value |-> g, stack |-> stack,
                ub |-> TRUE] : g \in GarbageValues}

\* The fault of an operation made of two parts.
Both(f, g) == IF f # "none" THEN f ELSE g

Stepped(f, stack, items, ub) ==
    [fault |-> f, stack |-> stack, items |-> items, ub |-> ub]

Value(v) == [kind |-> "value", value |-> v]

\* case Return / case Negate: one pop.
unary_(stack, opcode) ==
    {IF p.fault = "Crash" THEN Stepped(p.fault, p.stack, <<>>, p.ub)
     ELSE IF opcode = Return
       THEN Stepped(p.fault, p.stack, <<Value(p.value), Endl>>, p.ub)
     ELSE Stepped(p.fault, push_(p.stack, fneg(p.value)), <<>>, p.ub) :
        p \in pop_(stack)}

\* The operands applied the other way round: right <op> left.
apply_swapped(opcode, left, right) ==
    CASE opcode = Add      -> fadd(right, left)
      [] opcode = Subtract -> fsub(right, left)
      [] opcode = Multiply -> fmul(right, left)
      [] opcode = Divide   -> fdiv(right, left)

\* left <op> right
apply_(opcode, left, right) ==
    CASE opcode = Add      -> fadd(left, right)
      [] opcode = Subtract -> fsub(left, right)
      [] opcode = Multiply -> fmul(left, right)
      [] opcode = Divide   -> fdiv(left, right)

\* The binary cases popping the left operand first.
binary_left_first(stack, opcode) ==
    UNION {IF left.fault = "Crash"
             THEN {Stepped(left.fault, left.stack, <<>>, left.ub)}
           ELSE {IF right.fault = "Crash"
                   THEN Stepped(right.fault, right.stack, <<>>, TRUE)
                 ELSE Stepped(Both(left.fault, right.fault),
                              push_(right.stack,
                                    apply_(opcode, left.value, right.value)),
                              <<>>, right.ub \/ left.ub) :
                    right \in pop_(left.stack)} :
              left \in pop_(stack)}

\* case Add / Subtract / Multiply / Divide: right = pop_(); left = pop_();
\* push_(left <op> right).
binary_(stack, opcode) ==
    UNION {IF right.fault = "Crash"
             THEN {Stepped(right.fault, right.stack, <<>>, right.ub)}
           ELSE {IF left.fault = "Crash"
                   THEN Stepped(left.fault, left.stack, <<>>, TRUE)
                 ELSE Stepped(Both(right.fault, left.fault),
                              push_(left.stack,
                                    apply_(opcode, left.value, right.value)),
                              <<>>, right.ub \/ left.ub) :
                    left \in pop_(right.stack)} :
              right \in pop_(stack)}

\* void step(out, instr): the outcomes, each with the stack after it and the
\* items written to out.
step(stack, i) ==
    LET opcode == get_opcode(i) IN
    IF opcode \in {Return, Negate} THEN unary_(stack, opcode)
    ELSE IF opcode \in {Add, Subtract, Multiply, Divide}
      THEN binary_(stack, opcode)
    ELSE IF opcode = Constant
      THEN UNION {{IF g.fault = "none"
                     THEN Stepped("none", push_(stack, g.value), <<>>, FALSE)
                   ELSE Stepped(g.fault, stack, <<>>, FALSE) :
                       g \in get(constant_index)} :
                  constant_index \in get_constant_index(i)}
    ELSE {Stepped("InvalidOpcode", stack, <<>>, FALSE)}

\* The disassembly written before the stack.
dump_disassembly_first ==
    {Wrote(d.fault, d.items \o <<[kind |-> "stack", values |-> stack_], Endl>>) :
        d \in disassemble(ip_)}

\* void dump_(out): the stack, then the disassembly of the instruction at ip_.
dump_ ==
    {Wrote(d.fault, <<[kind |-> "stack", values |-> stack_], Endl>> \o d.items) :
        d \in disassemble(ip_)}

\* The loop advancing ip_ by two after a step.
iteration_skip ==
    UNION {IF d.fault # "none"
             THEN {[fault |-> d.fault, stack |-> stack_, items |-> d.items,
                    ub |-> FALSE, ip |-> ip_, stepped |-> FALSE]}
           ELSE UNION {IF r.fault # "none"
                         THEN {[fault |-> r.fault, stack |-> stack_,
                                items |-> d.items, ub |-> FALSE, ip |-> ip_,
                                stepped |-> FALSE]}
                       ELSE {[fault |-> s.fault, stack |-> s.stack,
                              items |-> d.items \o s.items, ub |-> s.ub,
                              ip |-> IF s.fault \in {"none", "Garbage"}
                                       THEN ip_ + 2
                                     ELSE ip_,
                              stepped |-> TRUE] :
                                 s \in step(stack_, r.value)} :
                          r \in read(ip_)} :
              d \in dump_}

\* The loop ended by a Return: ip_ jumps to the chunk's length.
iteration_return_halts ==
    UNION {IF d.fault # "none"
             THEN {[fault |-> d.fault, stack |-> stack_, items |-> d.items,
                    ub |-> FALSE, ip |-> ip_, stepped |-> FALSE]}
           ELSE UNION {IF r.fault # "none"
                         THEN {[fault |-> r.fault, stack |-> stack_,
                                items |-> d.items, ub |-> FALSE, ip |-> ip_,
                                stepped |-> FALSE]}
                       ELSE {[fault |-> s.fault, stack |-> s.stack,
                              items |-> d.items \o s.items, ub |-> s.ub,
                              ip |-> IF s.fault \notin {"none", "Garbage"}
                                       THEN ip_
                                     ELSE IF get_opcode(r.value) = Return
                                       THEN get_length
                                     ELSE ip_ + 1,
                              stepped |-> TRUE] :
                                 s \in step(stack_, r.value)} :
                          r \in read(ip_)} :
              d \in dump_}

\* The loop without ip_++.
iteration_stuck ==
    UNION {IF d.fault # "none"
             THEN {[fault |-> d.fault, stack |-> stack_, items |-> d.items,
                    ub |-> FALSE, ip |-> ip_, stepped |-> FALSE]}
           ELSE UNION {IF r.fault # "none"
                         THEN {[fault |-> r.fault, stack |-> stack_,
                                items |-> d.items, ub |-> FALSE, ip |-> ip_,
                                stepped |-> FALSE]}
                       ELSE {[fault |-> s.fault, stack |-> s.stack,
                              items |-> d.items \o s.items, ub |-> s.ub,
                              ip |-> ip_, stepped |-> TRUE] :
                                 s \in step(stack_, r.value)} :
                          r \in read(ip_)} :
              d \in dump_}

\* One iteration of the loop of run: dump_(out); instr = chunk_->read(ip_);
\* step(out, instr); ip_++.  The outcomes, each with the state after it.
iteration ==
    UNION {IF d.fault # "none"
             THEN {[fault |-> d.fault, stack |-> stack_, items |-> d.items,
                    ub |-> FALSE, ip |-> ip_, stepped |-> FALSE]}
           ELSE UNION {IF r.fault # "none"
                         THEN {[fault |-> r.fault, stack |-> stack_,
                                items |-> d.items, ub |-> FALSE, ip |-> ip_,
                                stepped |-> FALSE]}
                       ELSE {[fault |-> s.fault, stack |-> s.stack,
                              items |-> d.items \o s.items, ub |-> s.ub,
                              ip |-> IF s.fault \in {"none", "Garbage"}
                                       THEN ip_ + 1
                                     ELSE ip_,
                              stepped |-> TRUE] :
                                 s \in step(stack_, r.value)} :
                          r \in read(ip_)} :
              d \in dump_}

(***************************************************************************)
(* The state after construction: no Instruction at hand, an empty Chunk    *)
(* with its empty ConstantPool, and a VirtualMachine bound to it (ip_ = 0, *)
(* empty stack_).                                                          *)
(***************************************************************************)
Init ==
    /\ instr = None
    /\ pair = None
    /\ dec = None
    /\ name_ = "test chunk"
    /\ constants_ = <<>>
    /\ lines_ = <<>>
    /\ codes_ = <<>>
    /\ ip_ = 0
    /\ stack_ = <<>>
    /\ out = <<>>
    /\ pc = "idle"
    /\ ret = None
    /\ fault = "none"
    /\ hist = [arg |-> Uninit, added |-> <<>>, written |-> <<>>, ub |-> FALSE,
               executed |-> <<>>, entry |-> 0]

codecVars == <<instr, pair, dec>>
chunkVars == <<name_, constants_, lines_, codes_>>
vmVars == <<ip_, stack_, out, pc>>

(***************************************************************************)
(* Operations of the codec.                                                *)
(***************************************************************************)
\* Instruction(line, opcode)
Construct2(line, opcode) ==
    /\ fault = "none"
    /\ instr = None /\ pair = None
    /\ instr' = Instruction2(line, opcode)
    /\ pair' = None
    /\ dec' = None
    /\ hist' = [hist EXCEPT !.arg = Uninit]
    /\ UNCHANGED <<chunkVars, vmVars, ret, fault>>

\* Instruction(line, opcode, index)
Construct3(line, opcode, index) ==
    /\ fault = "none"
    /\ instr = None /\ pair = None
    /\ instr' = Instruction3(line, opcode, index)
    /\ pair' = None
    /\ dec' = None
    /\ hist' = [hist EXCEPT !.arg = index]
    /\ UNCHANGED <<chunkVars, vmVars, ret, fault>>

\* instr.serialize()
Serialize ==
    /\ fault = "none"
    /\ instr # None
    /\ pair = None
    /\ \E r \in serialize(instr) :
          /\ fault' = r.fault
          /\ pair' = r.value
    /\ dec' = None
    /\ UNCHANGED <<instr, chunkVars, vmVars, ret, hist>>

\* A (line, word) pair that no serialize call produced.
Supply(line, bytes) ==
    /\ fault = "none"
    /\ instr = None /\ pair = None
    /\ instr' = None
    /\ pair' = [line |-> line, word |-> bytes]
    /\ dec' = None
    /\ hist' = [hist EXCEPT !.arg = Uninit]
    /\ UNCHANGED <<chunkVars, vmVars, ret, fault>>

\* Instruction::deserialize(pair.line, pair.word)
Deserialize ==
    /\ fault = "none"
    /\ pair # None
    /\ dec = None
    /\ \E r \in deserialize(pair.line, pair.word) :
          /\ fault' = r.fault
          /\ dec' = r.value
    /\ UNCHANGED <<instr, pair, chunkVars, vmVars, ret, hist>>

(***************************************************************************)
(* Operations of the producer and of the host on the Chunk.                *)
(***************************************************************************)
\* chunk.get_constant_pool().add(v)
AddConstant(v) ==
    /\ fault = "none"
    /\ pc = "idle"
    /\ LET a == add(v) IN
          /\ constants_' = a.constants
          /\ hist' = [hist EXCEPT
                         !.added = Append(@, [value |-> v, index |-> a.value])]
    /\ ret' = None
    /\ UNCHANGED <<codecVars, name_, lines_, codes_, vmVars, fault>>

\* chunk.write(i)
WriteInstruction(i) ==
    /\ fault = "none"
    /\ pc = "idle"
    /\ \E w \in write(i) :
          /\ fault' = w.fault
          /\ lines_' = w.lines
          /\ codes_' = w.codes
          /\ hist' = IF w.fault = "none"
                       THEN [hist EXCEPT !.written = Append(@, i)]
                     ELSE hist
    /\ ret' = None
    /\ UNCHANGED <<codecVars, name_, constants_, vmVars>>

\* chunk.get_constant_pool().get(n)
GetCall(n) ==
    /\ fault = "none"
    /\ pc = "idle"
    /\ \E r \in get(n) :
          /\ fault' = r.fault
          /\ ret' = [call |-> "get", arg |-> n, value |-> r.value]
    /\ UNCHANGED <<codecVars, chunkVars, vmVars, hist>>

\* chunk.read(n)
ReadCall(n) ==
    /\ fault = "none"
    /\ pc = "idle"
    /\ \E r \in read(n) :
          /\ fault' = r.fault
          /\ ret' = [call |-> "read", arg |-> n, value |-> r.value]
    /\ UNCHANGED <<codecVars, chunkVars, vmVars, hist>>

\* chunk.disassemble(sink) on an empty sink
DisassembleChunk ==
    /\ fault = "none"
    /\ pc = "idle"
    /\ \E d \in disassemble_chunk :
          /\ fault' = d.fault
          /\ ret' = [call |-> "disassemble_chunk", arg |-> 0,
                     value |-> [items |-> d.items]]
    /\ UNCHANGED <<codecVars, chunkVars, vmVars, hist>>

\* chunk.disassemble(sink, n) on an empty sink
DisassembleCall(n) ==
    /\ fault = "none"
    /\ pc = "idle"
    /\ \E d \in disassemble(n) :
          /\ fault' = d.fault
          /\ ret' = [call |-> "disassemble", arg |-> n,
                     value |-> [items |-> d.items]]
    /\ UNCHANGED <<codecVars, chunkVars, vmVars, hist>>

(***************************************************************************)
(* VirtualMachine::run.                                                    *)
(***************************************************************************)
\* run starting the program again: ip_ = 0 and an empty stack on entry.
RunCall_restart ==
    /\ fault = "none"
    /\ pc = "idle"
    /\ pc' = "run"
    /\ ret' = None
    /\ ip_' = 0
    /\ stack_' = <<>>
    /\ hist' = [hist EXCEPT !.entry = 0]
    /\ UNCHANGED <<codecVars, chunkVars, out, fault>>

\* The host calls vm.run(out).
RunCall ==
    /\ fault = "none"
    /\ pc = "idle"
    /\ pc' = "run"
    /\ ret' = None
    /\ hist' = [hist EXCEPT !.entry = ip_]
    /\ UNCHANGED <<codecVars, chunkVars, ip_, stack_, out, fault>>

\* The loop interning a value into the chunk's pool whenever it steps.
RunIteration_interning ==
    /\ fault = "none"
    /\ pc = "run"
    /\ ip_ < get_length
    /\ \E s \in iteration :
          /\ fault' = s.fault
          /\ stack_' = s.stack
          /\ out' = out \o s.items
          /\ ip_' = s.ip
          /\ constants_' = IF s.stepped THEN add(Zero(1)).constants
                           ELSE constants_
          /\ hist' = [hist EXCEPT
                         !.ub = @ \/ s.ub,
                         !.executed = IF s.stepped THEN Append(@, ip_) ELSE @]
    /\ UNCHANGED <<codecVars, name_, lines_, codes_, pc, ret>>

\* while (ip_ < chunk_->get_length()) { ... }
RunIteration ==
    /\ fault = "none"
    /\ pc = "run"
    /\ ip_ < get_length
    /\ \E s \in iteration :
          /\ fault' = s.fault
          /\ stack_' = s.stack
          /\ out' = out \o s.items
          /\ ip_' = s.ip
          /\ hist' = [hist EXCEPT
                         !.ub = @ \/ s.ub,
                         !.executed = IF s.stepped THEN Append(@, ip_) ELSE @]
    /\ UNCHANGED <<codecVars, chunkVars, pc, ret>>

\* return Result::Ok;
RunReturn ==
    /\ fault = "none"
    /\ pc = "run"
    /\ ~(ip_ < get_length)
    /\ pc' = "idle"
    /\ ret' = [call |-> "run", arg |-> 0, value |-> [result |-> "Ok"]]
    /\ UNCHANGED <<codecVars, chunkVars, ip_, stack_, out, fault, hist>>

(***************************************************************************)
(* Inputs.                                                                 *)
(***************************************************************************)
\* The constants the producer interns.
Values == {Zero(1), Dbl(1, 3, 1)}

\* Codec inputs: line numbers, constructor indexes around the byte and
\* 24-bit boundaries, and words with every low byte.
CodecLines == {0, 1, 65536}

CodecIndexes ==
    {0, 1, 255, 256, 65535, 65536, Pow2(24) - 1, Pow2(24), Pow2(24) + 1,
     Pow2(25) + 255}

CodecWords ==
    {Or32(ToU32(b), Shl8(ToU32(x))) : b \in 0 .. 255, x \in {0, 1, Pow2(24) - 1}}

\* SpecChunk: the instructions written.  Both constructors; an opcode for
\* each branch of serialize (the lowest and the highest tag without an
\* operand, Constant, the sentinel); indexes within and beyond 24 bits.
ChunkLines == {1, 2}

ChunkInstructions ==
    {Instruction2(l, o) :
        l \in ChunkLines, o \in {Return, Constant, Negate, _Count}}
    \cup {Instruction3(l, Constant, x) :
             l \in ChunkLines, x \in {0, Pow2(24) + 1}}
    \cup {Instruction3(l, Add, 1) : l \in ChunkLines}

\* Spec: the instructions written.  Every enumerator of Opcode, and Constant
\* with every index the full pool has and the first index it never has; the
\* line is the position in the file.
Instructions ==
    {Instruction2(Len(codes_) + 1, o) : o \in Opcodes \ {Constant}}
    \cup {Instruction3(Len(codes_) + 1, Constant, x) : x \in 0 .. MaxConstants}

(***************************************************************************)
(* SpecCodec: the Instruction codec alone.                                 *)
(***************************************************************************)
CodecConstruct2 == \E l \in CodecLines, o \in Opcodes : Construct2(l, o)

CodecConstruct3 ==
    \E l \in CodecLines, o \in Opcodes, x \in CodecIndexes : Construct3(l, o, x)

CodecSupply == \E l \in CodecLines, w \in CodecWords : Supply(l, w)

CodecNext ==
    \/ CodecConstruct2
    \/ CodecConstruct3
    \/ Serialize
    \/ CodecSupply
    \/ Deserialize

SpecCodec == Init /\ [][CodecNext]_vars

(***************************************************************************)
(* SpecChunk: a producer building a Chunk and its pool, and a host reading *)
(* them back.                                                              *)
(***************************************************************************)
ChunkAdd == \E v \in Values : Len(constants_) < MaxPool /\ AddConstant(v)

ChunkWrite ==
    \E i \in ChunkInstructions : Len(codes_) < MaxWrites /\ WriteInstruction(i)

ChunkGet == \E n \in 0 .. MaxPool : GetCall(n)

ChunkRead == \E n \in 0 .. MaxWrites : ReadCall(n)

ChunkNext ==
    \/ ChunkAdd
    \/ ChunkWrite
    \/ ChunkGet
    \/ ChunkRead

SpecChunk == Init /\ [][ChunkNext]_vars

(***************************************************************************)
(* SpecDisassemble: a producer building a Chunk and its pool, and a host   *)
(* disassembling it, whole or one instruction at a time.                   *)
(***************************************************************************)
DisassembleOne == \E n \in 0 .. MaxWrites : DisassembleCall(n)

DisassembleNext ==
    \/ ChunkAdd
    \/ ChunkWrite
    \/ DisassembleChunk
    \/ DisassembleOne

SpecDisassemble == Init /\ [][DisassembleNext]_vars

(***************************************************************************)
(* Spec: a producer building a Chunk and a host running the VirtualMachine *)
(* bound to it, any number of times, between the producer's calls.         *)
(***************************************************************************)
Produce == \E v \in Values : Len(constants_) < MaxConstants /\ AddConstant(v)

Write == \E i \in Instructions : Len(codes_) < MaxCode /\ WriteInstruction(i)

Next ==
    \/ Produce
    \/ Write
    \/ RunCall
    \/ RunIteration
    \/ RunReturn

Spec == Init /\ [][Next]_vars

(***************************************************************************)
(* SpecFair: Spec with the scheduling of run.  run is a loop on the        *)
(* calling thread without yield, callback or blocking call: once called,   *)
(* its next iteration, or its return, is taken as long as it is possible.  *)
(* The producer and the host are those of Spec, on chunks of at most       *)
(* MaxFair instructions.                                                   *)
(***************************************************************************)
FairWrite == \E i \in Instructions : Len(codes_) < MaxFair /\ WriteInstruction(i)

FairNext ==
    \/ Produce
    \/ FairWrite
    \/ RunCall
    \/ RunIteration
    \/ RunReturn

SpecFair ==
    Init /\ [][FairNext]_vars /\ WF_vars(RunIteration) /\ WF_vars(RunReturn)

(***************************************************************************)
(* SpecMain: main().  The seven statements that build the chunk, then      *)
(* VirtualMachine vm(&chunk); vm.run(std::cerr).  The three literals are   *)
(* drawn from MainValues, which holds main's own 1.2, 3.4 and 5.6.         *)
(***************************************************************************)
MainProgram ==
    <<[line |-> 1, opcode |-> Constant], [line |-> 2, opcode |-> Constant],
      [line |-> 3, opcode |-> Add],      [line |-> 4, opcode |-> Constant],
      [line |-> 5, opcode |-> Divide],   [line |-> 6, opcode |-> Negate],
      [line |-> 7, opcode |-> Return]>>

MainValues == {Dbl(1, 12, 10), Dbl(1, 34, 10), Dbl(1, 56, 10), Zero(1)}

\* The Constant instructions written so far.
ConstantsWritten ==
    Cardinality({j \in 1 .. Len(hist.written) :
                    hist.written[j].opcode = Constant})

\* The argument of write: chunk.get_constant_pool().add(literal)
MainAdd ==
    /\ Len(codes_) < Len(MainProgram)
    /\ MainProgram[Len(codes_) + 1].opcode = Constant
    /\ Len(constants_) = ConstantsWritten
    /\ \E v \in MainValues : AddConstant(v)

\* chunk.write(Instruction(line, opcode)), or
\* chunk.write(Instruction(line, Constant, <the index add returned>))
MainWrite ==
    /\ Len(codes_) < Len(MainProgram)
    /\ LET stmt == MainProgram[Len(codes_) + 1] IN
       IF stmt.opcode = Constant
         THEN /\ Len(constants_) = ConstantsWritten + 1
              /\ WriteInstruction(
                     Instruction3(stmt.line, Constant,
                                  hist.added[Len(hist.added)].index))
       ELSE WriteInstruction(Instruction2(stmt.line, stmt.opcode))

\* VirtualMachine vm(&chunk); vm.run(std::cerr);
MainRun ==
    /\ Len(codes_) = Len(MainProgram)
    /\ ip_ = 0
    /\ RunCall

MainNext ==
    \/ MainAdd
    \/ MainWrite
    \/ MainRun
    \/ RunIteration
    \/ RunReturn

SpecMain == Init /\ [][MainNext]_vars

(***************************************************************************)
(* Properties of the codec (SpecCodec).                                    *)
(***************************************************************************)
\* Bits 0..7 and bits 8..31 of a word, by arithmetic on its value.
LowByte(w) == w[2] % 256

HighBits(w) == w[1] * 256 + w[2] \div 256

\* C1: round trip.  For every instruction with an opcode in Return..Negate
\* (and, for Constant, an initialized operand), deserialize applied to the
\* (line, word) pair that serialize returned yields an instruction with the
\* same opcode, the same line and, for Constant, the same operand.
C1_RoundTrip ==
    (instr # None /\ pair # None /\ dec # None) =>
        /\ fault = "none"
        /\ dec.opcode = instr.opcode
        /\ dec.line = instr.line
        /\ (instr.opcode = Constant /\ instr.index # Uninit) =>
               dec.index = instr.index

\* A Constant with the largest operand went through serialize and
\* deserialize.
C1_Witness ==
    /\ instr # None /\ pair # None /\ dec # None
    /\ instr.opcode = Constant
    /\ instr.index = Pow2(24) - 1
    /\ instr.line = 65536

\* C2: word layout.  In every word serialize returns, bits 0..7 are the
\* opcode tag; for a Constant built with an index argument, bits 8..31 are
\* that argument modulo 2^24; for every other opcode bits 8..31 are zero,
\* whatever index the instruction was built with.
C2_WordLayout ==
    (instr # None /\ pair # None) =>
        /\ LowByte(pair.word) = instr.opcode
        /\ pair.line = instr.line
        /\ (instr.opcode = Constant /\ hist.arg # Uninit) =>
               HighBits(pair.word) = hist.arg % 16777216
        /\ instr.opcode # Constant => HighBits(pair.word) = 0

\* A Constant built with an index beyond 24 bits was serialized.
C2_Witness ==
    /\ instr # None /\ pair # None
    /\ instr.opcode = Constant
    /\ hist.arg = Pow2(25) + 255

\* C3: deserialize signals InvalidOpcode, and returns no instruction, for
\* every word whose low byte is in 7..255, and never faults for a low byte
\* in 0..6.
C3_InvalidOpcode ==
    pair # None =>
        IF LowByte(pair.word) \in 7 .. 255
          THEN dec = None /\ fault \in {"none", "InvalidOpcode"}
        ELSE fault = "none"

(***************************************************************************)
(* Properties of the ConstantPool and the Chunk (SpecChunk).               *)
(***************************************************************************)
\* C4: constant pool.  The k-th add (k = 0, 1, ...) returned k, get(i)
\* returns the value passed to the i-th add for every i below the length,
\* and no step changes an existing entry or shortens the pool.
C4_ConstantPool ==
    /\ [](/\ Len(hist.added) = Len(constants_)
          /\ \A k \in 1 .. Len(hist.added) :
                /\ hist.added[k].index = k - 1
                /\ get(k - 1) = {Returned(hist.added[k].value)})
    /\ [][/\ Len(constants_') >= Len(constants_)
          /\ \A k \in 1 .. Len(constants_) : constants_'[k] = constants_[k]]_vars

\* Two different values were added.
C4_Witness ==
    /\ Len(constants_) >= 2
    /\ constants_[1] # constants_[2]
    /\ hist.added[2].index = 1

\* What read must return for a written instruction: its opcode, its line
\* and, for a Constant with an initialized index, its operand.
ReadsBack(r, w) ==
    /\ r.fault = "none"
    /\ r.value.opcode = w.opcode
    /\ r.value.line = w.line
    /\ (w.opcode = Constant /\ w.index # Uninit) => r.value.index = w.index

\* C5: chunk read-back.  After n successful writes get_length is n, read(i)
\* returns the i-th written instruction for every i < n, and no step that
\* changes the chunk (a later write) changes what read(i) returns.
C5_ReadBack ==
    /\ [](/\ get_length = Len(hist.written)
          /\ \A i \in 0 .. Len(hist.written) - 1 :
                \A r \in read(i) : ReadsBack(r, hist.written[i + 1]))
    /\ [][(lines_' # lines_ \/ codes_' # codes_) =>
             \A i \in 0 .. get_length - 1 : read(i)' = read(i)]_vars

\* A Constant with an operand beyond 24 bits, then another instruction on
\* another line, were written and the first was read.
C5_Witness ==
    /\ Len(hist.written) >= 2
    /\ hist.written[1].opcode = Constant
    /\ hist.written[1].index = 1
    /\ hist.written[2].opcode = Negate
    /\ hist.written[2].line # hist.written[1].line
    /\ ret # None /\ ret.call = "read" /\ ret.arg = 0
    /\ fault = "none"

\* C6: the line sequence and the code sequence have the same length, entry
\* i of each comes from the i-th successful write, and a write that fails
\* appends to neither.
C6_Parallel ==
    /\ [](/\ Len(lines_) = Len(codes_)
          /\ Len(codes_) = Len(hist.written)
          /\ \A i \in 1 .. Len(hist.written) :
                /\ lines_[i] = hist.written[i].line
                /\ LowByte(codes_[i]) = hist.written[i].opcode)
    /\ [][fault' = "InvalidOpcode" => UNCHANGED <<lines_, codes_>>]_vars

\* A write of the sentinel failed on a chunk that holds an instruction.
C6_Witness ==
    /\ fault = "InvalidOpcode"
    /\ Len(codes_) >= 1

\* C7: out-of-range access.  get(n) with n at or beyond the pool's length
\* and read(n) with n at or beyond the chunk's length signal
\* IndexOutOfRange and return nothing, and the call leaves pool and chunk
\* unchanged.
C7_OutOfRange ==
    /\ [](/\ \A n \in Len(constants_) .. MaxPool + 1 :
                get(n) = {Failed("IndexOutOfRange")}
          /\ \A n \in Len(codes_) .. MaxWrites + 1 :
                read(n) = {Failed("IndexOutOfRange")}
          /\ (ret # None /\ ret.call = "get" /\ ret.arg >= Len(constants_)) =>
                fault = "IndexOutOfRange" /\ ret.value = None
          /\ (ret # None /\ ret.call = "read" /\ ret.arg >= Len(codes_)) =>
                fault = "IndexOutOfRange" /\ ret.value = None)
    /\ [][fault' = "IndexOutOfRange" => UNCHANGED chunkVars]_vars

\* get was called with the length of a pool that is not empty.
C7_Witness ==
    /\ ret # None /\ ret.call = "get"
    /\ ret.arg = Len(constants_)
    /\ Len(constants_) >= 1
    /\ Len(codes_) >= 1
    /\ fault = "IndexOutOfRange"

(***************************************************************************)
(* Properties of the VirtualMachine (Spec, SpecMain).                      *)
(***************************************************************************)
\* The opcode tag of the code word at offset i of the chunk.
OpcodeAt(i) == LowByte(codes_[i + 1])

\* a <op> b for the four binary opcodes.
Arith(opcode, a, b) ==
    CASE opcode = Add      -> fadd(a, b)
      [] opcode = Subtract -> fsub(a, b)
      [] opcode = Multiply -> fmul(a, b)
      [] opcode = Divide   -> fdiv(a, b)

Results == SelectSeq(out, LAMBDA item : item.kind = "value")

\* C9: end to end.  main's chunk never faults; when run has returned Ok the
\* sink holds exactly one result value, -((c0 + c1) / c2) for the three
\* constants interned, which for 1.2, 3.4, 5.6 is -23/28
\* (-0.8214285714285714); the stack is empty and ip is the chunk length 7.
C9_EndToEnd ==
    /\ fault = "none"
    /\ (ret # None /\ ret.call = "run") =>
          /\ ret.value.result = "Ok"
          /\ Len(constants_) = 3
          /\ Results = <<Value(fneg(fdiv(fadd(constants_[1], constants_[2]),
                                         constants_[3])))>>
          /\ (constants_ = <<Dbl(1, 12, 10), Dbl(1, 34, 10), Dbl(1, 56, 10)>>
                 => Results = <<Value(Dbl(-1, 23, 28))>>)
          /\ stack_ = <<>>
          /\ ip_ = 7
          /\ ip_ = get_length

\* run returned on main's chunk with main's constants.
C9_Witness ==
    /\ ret # None /\ ret.call = "run"
    /\ constants_ = <<Dbl(1, 12, 10), Dbl(1, 34, 10), Dbl(1, 56, 10)>>
    /\ Len(out) > 2

\* C10: stack underflow.  A step that pops an empty stack (an arithmetic
\* opcode or Return on an empty stack, a binary opcode on a stack of one)
\* signals StackUnderflow; it neither crashes nor computes with a garbage
\* value.
C10_StackUnderflow == hist.ub => fault = "StackUnderflow"

\* C11: instruction pointer.  In every state reachable from the new
\* VirtualMachine through any number of run calls 0 <= ip_ <= the chunk's
\* length, and while no fault has occurred ip_ is the number of instructions
\* executed; ip_ never decreases, a step of the loop that executes an
\* instruction adds exactly 1 to it and no other step changes it; run
\* returns Ok only where ip_ is the chunk's length.
C11_InstructionPointer ==
    /\ [](/\ 0 <= ip_ /\ ip_ <= get_length
          /\ fault = "none" => ip_ = Len(hist.executed)
          /\ (ret # None /\ ret.call = "run") => ip_ = get_length)
    /\ [][/\ ip_' >= ip_
          /\ (hist.executed' # hist.executed /\ fault' \in {"none", "Garbage"})
                 => ip_' = ip_ + 1
          /\ hist.executed' = hist.executed => ip_' = ip_
          /\ (pc = "run" /\ pc' = "idle") => ip_ = get_length]_vars

\* run returned Ok after executing at least two instructions.
C11_Witness ==
    /\ ret # None /\ ret.call = "run"
    /\ fault = "none"
    /\ ip_ >= 2 /\ ip_ = get_length

\* C12: run never mutates the chunk.  No step from the call of run to its
\* return or its fault, tracing included, changes the chunk's name, code
\* words, line numbers or constant pool; the chunk a VirtualMachine is
\* bound to holds at all times exactly what the producer wrote and
\* interned, whatever runs took place in between.
C12_ChunkUnchanged ==
    /\ [][(pc = "run" \/ pc' = "run") =>
             /\ name_' = name_
             /\ codes_' = codes_
             /\ lines_' = lines_
             /\ constants_' = constants_]_vars
    /\ [](/\ name_ = "test chunk"
          /\ Len(codes_) = Len(hist.written)
          /\ Len(lines_) = Len(hist.written)
          /\ \A j \in 1 .. Len(hist.written) :
                 /\ lines_[j] = hist.written[j].line
                 /\ LowByte(codes_[j]) = hist.written[j].opcode
          /\ constants_ = [j \in 1 .. Len(hist.added) |-> hist.added[j].value])

\* A run over a chunk with a constant ended in a fault after it had
\* executed an instruction and traced the next.
C12_Witness ==
    /\ fault \notin {"none", "InvalidOpcode"}
    /\ Len(hist.executed) >= 1
    /\ Len(constants_) >= 1
    /\ Len(out) > 4

(***************************************************************************)
(* Properties of disassembly (SpecDisassemble).                            *)
(***************************************************************************)
\* The items of one kind among those written, in order.
ItemsOf(items, kind) == SelectSeq(items, LAMBDA item : item.kind = kind)

\* The last call was one of the two disassemble overloads.
Disassembled(r) ==
    r # None /\ r.call \in {"disassemble", "disassemble_chunk"}

\* C13: disassembly is read-only and stable.  Neither overload of
\* disassemble changes the chunk's name, code words, line numbers or
\* constant pool; a second call with the same argument on the unchanged
\* chunk writes the same items as the first; disassemble(out) writes the
\* header line and then one line per instruction, for the indexes
\* 0 .. length - 1 in increasing order, and disassemble(out, n) writes the
\* one line of instruction n.
C13_Disassembly ==
    /\ [][Disassembled(ret') =>
             /\ name_' = name_
             /\ codes_' = codes_
             /\ lines_' = lines_
             /\ constants_' = constants_]_vars
    /\ [][(/\ Disassembled(ret) /\ Disassembled(ret')
           /\ ret'.call = ret.call /\ ret'.arg = ret.arg
           /\ UNCHANGED chunkVars)
          => (ret'.value = ret.value /\ fault' = fault)]_vars
    /\ []((Disassembled(ret) /\ fault = "none") =>
             LET items == ret.value.items
                 rows == ItemsOf(items, "row")
             IN  /\ items[Len(items)] = Endl
                 /\ \A j \in 1 .. Len(items) - 1 :
                        items[j] = Endl => items[j + 1].kind = "row"
                 /\ IF ret.call = "disassemble_chunk"
                      THEN /\ items[1] = Header(name_)
                           /\ items[2] = Endl
                           /\ Len(rows) = get_length
                           /\ \A j \in 1 .. Len(rows) : rows[j].index = j - 1
                           /\ Len(ItemsOf(items, "endl")) = get_length + 1
                    ELSE /\ items[1].kind = "row"
                         /\ Len(rows) = 1
                         /\ rows[1].index = ret.arg
                         /\ Len(ItemsOf(items, "endl")) = 1)

\* A chunk of two instructions, one of them a Constant, was disassembled
\* whole.
C13_Witness ==
    /\ ret # None /\ ret.call = "disassemble_chunk"
    /\ fault = "none"
    /\ get_length = 2
    /\ Len(ItemsOf(ret.value.items, "operand")) = 1

\* C18: the line of a Constant.  For an instruction index n below the
\* chunk's length, disassemble(out, n) of a Constant with operand c writes,
\* after the four columns of the row, the constant-pool index c and the
\* value at position c of the pool, also when c differs from n; for every
\* other opcode it writes the row alone.
C18_ConstantLine ==
    (/\ ret # None /\ ret.call = "disassemble"
     /\ fault = "none")
    => LET n == ret.arg
           items == ret.value.items
           c == HighBits(codes_[n + 1])
       IN  /\ n < get_length
           /\ Len(ItemsOf(items, "row")) = 1
           /\ items[1].kind = "row"
           /\ items[1].index = n
           /\ IF LowByte(codes_[n + 1]) = Constant
                THEN items = <<items[1], Operand(c, constants_[c + 1]), Endl>>
              ELSE items = <<items[1], Endl>>

\* The Return instructions among the first n of the chunk.
ReturnsBefore(n) == Cardinality({j \in 0 .. n - 1 : OpcodeAt(j) = Return})

\* C14: execution order.  run executes the instructions one after the other
\* from index 0, each once, and leaves its loop only at ip_ = length or by
\* a fault, so when it returns Ok every instruction has been executed; a
\* Return on a non-empty stack pops the top, writes it as one result value
\* and the loop goes on with the next instruction; no other instruction
\* writes a result, so after the first n instructions the sink holds one
\* result per Return among them, in the order they were executed.
C14_ExecutionOrder ==
    /\ [](/\ hist.executed = [j \in 1 .. Len(hist.executed) |-> j - 1]
          /\ Len(hist.executed) <= get_length
          /\ (ret # None /\ ret.call = "run") =>
                 Len(hist.executed) = get_length
          /\ fault = "none" => Len(Results) = ReturnsBefore(ip_))
    /\ [][/\ (pc = "run" /\ pc' # "run") => ip_ = get_length
          /\ (pc = "run" /\ fault = "none" /\ ip_ < get_length) =>
                 IF OpcodeAt(ip_) = Return
                   THEN Len(stack_) >= 1 =>
                          /\ fault' = "none"
                          /\ pc' = "run"
                          /\ ip_' = ip_ + 1
                          /\ hist.executed' = Append(hist.executed, ip_)
                          /\ stack_' = SubSeq(stack_, 1, Len(stack_) - 1)
                          /\ Results' =
                                 Append(Results, Value(stack_[Len(stack_)]))
                 ELSE Results' = Results]_vars

\* run returned Ok on a chunk of four instructions with two Returns, the
\* first of them followed by other instructions.
C14_Witness ==
    /\ ret # None /\ ret.call = "run"
    /\ fault = "none"
    /\ get_length = 4
    /\ OpcodeAt(1) = Return
    /\ Len(Results) = 2

\* The items a step of the loop appended to the sink.
Emitted == SubSeq(out', Len(out) + 1, Len(out'))

\* C15: trace ordering.  Every iteration of run's loop, at index i, appends
\* to the sink, in this order: the stack as it is before instruction i
\* (bottom to top) and an end of line; the disassembly row of instruction i
\* (with its operand columns for a Constant) and an end of line; then what
\* executing instruction i writes, which is the popped value and an end of
\* line for a Return and nothing for any other opcode.  The iteration ends
\* with ip_ = i + 1, and nothing is written to the sink outside an
\* iteration, so nothing of instruction i + 1 precedes the execution of i.
C15_TraceOrder ==
    /\ [][(pc = "run" /\ fault = "none" /\ ip_ < get_length
           /\ fault' = "none")
          => LET e == Emitted
                 k == IF OpcodeAt(ip_) = Constant THEN 5 ELSE 4
             IN  /\ Len(e) >= k
                 /\ e[1] = [kind |-> "stack", values |-> stack_]
                 /\ e[2] = Endl
                 /\ e[3].kind = "row"
                 /\ e[3].index = ip_
                 /\ e[3].code = codes_[ip_ + 1]
                 /\ e[3].line = lines_[ip_ + 1]
                 /\ OpcodeAt(ip_) = Constant => e[4].kind = "operand"
                 /\ e[k] = Endl
                 /\ SubSeq(e, k + 1, Len(e)) =
                        IF OpcodeAt(ip_) = Return
                          THEN <<Value(stack_[Len(stack_)]), Endl>>
                        ELSE <<>>
                 /\ ip_' = ip_ + 1
                 /\ hist.executed' = Append(hist.executed, ip_)]_vars
    /\ [][out' # out =>
             /\ pc = "run" /\ ip_ < get_length
             /\ SubSeq(out', 1, Len(out)) = out
             /\ Emitted[1] = [kind |-> "stack", values |-> stack_]]_vars
    /\ [](Len(ItemsOf(out, "stack")) \in
             {Len(hist.executed), Len(hist.executed) + 1})

\* A Return was executed on a stack of two values after another
\* instruction: the sink ends with the row of the Return, the value popped
\* and an end of line.
C15_Witness ==
    /\ fault = "none"
    /\ ip_ >= 2
    /\ OpcodeAt(ip_ - 1) = Return
    /\ Len(stack_) = 1
    /\ Len(out) >= 3
    /\ out[Len(out) - 1].kind = "value"
    /\ out[Len(out) - 3].kind = "row"

\* C16: termination.  The chunk is not written while run is in its loop,
\* and every call of run ends: it returns Ok or the process ends in a
\* fault.  Every iteration that does not fault brings ip_ one closer to the
\* chunk's length, so a call executes at most (length - ip_ on entry)
\* instructions, which is at most the chunk's length; no index is executed
\* twice.
C16_Termination ==
    /\ (pc = "run") ~> (pc = "idle" \/ fault # "none")
    /\ [][(pc = "run" /\ pc' = "run") =>
             /\ UNCHANGED chunkVars
             /\ fault' = "none" => get_length - ip_' < get_length - ip_]_vars
    /\ [](/\ \A j, k \in 1 .. Len(hist.executed) :
                 hist.executed[j] = hist.executed[k] => j = k
          /\ pc = "run" =>
                 /\ hist.entry <= ip_
                 /\ Len(hist.executed) - hist.entry <= get_length
                 /\ fault = "none" => get_length - ip_ >= 0)

\* A run that was called on a chunk of two instructions has returned.
C16_Witness ==
    /\ ret # None /\ ret.call = "run"
    /\ hist.entry = 0
    /\ get_length = 2
    /\ Len(hist.executed) = 2

\* The operand stored in the code word at offset i of the chunk.
OperandAt(i) == HighBits(codes_[i + 1])

\* C17: dangling constant index.  When run reaches, at index k, a Constant
\* whose operand is not below the pool's length at that moment, the process
\* ends there with IndexOutOfRange: nothing is pushed, the stack and ip_ are
\* those before instruction k, the instructions 0 .. k - 1 and no other
\* have been executed, and run never returns.  An operand below the pool's
\* length at that moment, whatever the pool was when the instruction was
\* written, does not fault: the constant is pushed.
C17_DanglingConstant ==
    /\ [][(pc = "run" /\ fault = "none" /\ ip_ < get_length
           /\ OpcodeAt(ip_) = Constant)
          => IF OperandAt(ip_) >= Len(constants_)
               THEN /\ fault' = "IndexOutOfRange"
                    /\ stack_' = stack_
                    /\ ip_' = ip_
                    /\ hist.executed' = hist.executed
                    /\ Results' = Results
                    /\ pc' = "run" /\ ret' = None
             ELSE /\ fault' = "none"
                  /\ stack_' = Append(stack_, constants_[OperandAt(ip_) + 1])
                  /\ ip_' = ip_ + 1]_vars
    /\ [][fault # "IndexOutOfRange"]_vars
    /\ [](fault = "IndexOutOfRange" =>
             /\ pc = "run" /\ ret = None
             /\ ip_ < get_length
             /\ OpcodeAt(ip_) = Constant
             /\ OperandAt(ip_) >= Len(constants_)
             /\ hist.executed = [j \in 1 .. ip_ |-> j - 1]
             /\ Len(Results) = ReturnsBefore(ip_))

\* run faulted at a dangling Constant after executing two instructions, one
\* of them a Constant in range, which left a value on the stack.
C17_Witness ==
    /\ fault = "IndexOutOfRange"
    /\ ip_ = 2
    /\ OpcodeAt(0) = Constant
    /\ Len(stack_) >= 1

\* run has returned Ok and no call was made since.
RunReturned ==
    ret # None /\ ret.call = "run" /\ ret.value = [result |-> "Ok"]

\* C19: running again.  Nothing outside run's loop, the call of run
\* included, changes ip_, the stack or the sink or executes an instruction,
\* so a call of run starts at the ip_ and with the stack the previous call
\* left.  A call that finds ip_ = length (the chunk unchanged since run
\* returned Ok) returns Ok at once with ip_, the stack and the sink
\* unchanged.  When a call returns Ok it has executed exactly the indexes
\* from the ip_ it found on entry (the old length) to the new length - 1,
\* each index of the chunk having been executed once over all the calls.
C19_RunAgain ==
    /\ [][pc = "idle" =>
             /\ ip_' = ip_ /\ stack_' = stack_ /\ out' = out
             /\ hist.executed' = hist.executed
             /\ pc' = "run" => hist.entry' = ip_]_vars
    /\ [][(pc = "run" /\ fault = "none" /\ ip_ = get_length) =>
             /\ pc' = "idle" /\ RunReturned'  /\ fault' = "none"
             /\ ip_' = ip_ /\ stack_' = stack_ /\ out' = out
             /\ hist.executed' = hist.executed]_vars
    /\ []((pc = "run" /\ fault = "none") =>
             /\ hist.entry <= ip_
             /\ hist.executed = [j \in 1 .. ip_ |-> j - 1])
    /\ [](RunReturned =>
             /\ fault = "none"
             /\ hist.entry <= get_length
             /\ ip_ = get_length
             /\ hist.executed = [j \in 1 .. get_length |-> j - 1])

\* A second call of run has returned Ok after executing the one instruction
\* appended since the first, on the stack the first had left.
C19_Witness ==
    /\ RunReturned
    /\ hist.entry >= 1
    /\ get_length = hist.entry + 1
    /\ OpcodeAt(hist.entry) = Negate
    /\ Len(stack_) = 1

\* C20: no sentinel in stored bytecode.  With instructions built from the
\* enumerators of Opcode, _Count included, every code word of the chunk has
\* its low byte in 0 .. 6: a write of the sentinel ends the process in
\* serialize with nothing appended.  So read(i) succeeds for every i below
\* the chunk's length and returns one of the seven opcodes, and no fault of
\* a run is InvalidOpcode: neither read nor to_string nor the last branch
\* of step signals it.
C20_NoSentinel ==
    /\ \A i \in 0 .. get_length - 1 :
          /\ OpcodeAt(i) \in Return .. Negate
          /\ \A r \in read(i) :
                 /\ r.fault = "none"
                 /\ get_opcode(r.value) = OpcodeAt(i)
                 /\ to_string(get_opcode(r.value)).fault = "none"
    /\ pc = "run" => fault # "InvalidOpcode"
    /\ fault = "InvalidOpcode" =>
          /\ pc = "idle"
          /\ get_length = Len(hist.written)
          /\ Len(lines_) = Len(hist.written)

\* The producer's write of the sentinel ended the process, after a run over
\* the instruction written before it.
C20_Witness ==
    /\ fault = "InvalidOpcode"
    /\ get_length = 1
    /\ ip_ = 1

====
